---- MODULE Spec2Model ----
(***************************************************************************)
(* Model of aggregator::SampleReader (src/src/SampleReader.hpp): a set of  *)
(* typed, bounded FIFO streams of timestamped samples, and the step        *)
(* algorithm that re-emits the samples through per-stream callbacks.       *)
(*                                                                         *)
(* base::Time is modelled as an integer number of microseconds; the null   *)
(* time is 0.  Stream ids are 0-based as in the code; streams[idx + 1] is  *)
(* the stream with id idx.                                                 *)
(***************************************************************************)
EXTENDS Integers, Sequences, FiniteSets, TLC

VARIABLES
    streams,      \* stream_vector streams: sequence of Stream records
    timeout,      \* base::Time timeout
    latest_ts,    \* time of the last sample that came in
    current_ts,   \* time of the last sample that went out
    alive,        \* FALSE once the process has been terminated (abort, crash)
    ret,          \* how the last call ended: "true"/"false" for step, "return"
                  \* for a call that came back without a value, else the error
    emitted,      \* log of the callback invocations, in invocation order
    nPush,        \* number of push calls made so far
    stalePushed,  \* payloads whose push had ts + timeout < latest_ts
    lowPushed,    \* payloads whose push had ts < lastTime of its stream
    badPush,      \* some push had an id out of range or the wrong type
    scen,         \* name of the scripted scenario being run ("none": free run)
    pcS,          \* index of the next scripted push
    earlyStep,    \* a step was taken before the script's last push
    drained,      \* the drain loop after the script has seen step return false
    pushed        \* log of the (ts, data) pushed by a round-trip run

vars == <<streams, timeout, latest_ts, current_ts, alive, ret, emitted,
          nPush, stalePushed, lowPushed, badPush, scen, pcS, earlyStep, drained, pushed>>

harness == <<scen, pcS, earlyStep, drained, pushed>>

(***************************************************************************)
(* Bounds of the model.                                                    *)
(***************************************************************************)
MaxPush == 2
MaxTs == 2

Timestamps == 0..MaxTs
Timeouts == {0, 1, 2}
Periods == {0, 1}
BufferSizes == {0, 1}
Types == {"int", "double"}
\* ids of the streams that get registered, and the ids tried by push: one
\* below and one above them as well
StreamIds == {0, 1}
PushIds == {-1} \cup StreamIds \cup {Cardinality(StreamIds)}

\* The code treats all payload types alike: the first stream registered is
\* taken to be a Stream<int>, later ones are of either type.
RegisterTypes(n) == IF n = 0 THEN {"int"} ELSE Types

\* The payload of the k-th push call.  Payloads are opaque to the code; giving
\* every push its own payload lets the callback log identify the sample.
Payload(k) == 10 * k

(***************************************************************************)
(* Stream<T>                                                               *)
(***************************************************************************)
\* Stream( callback, bufferSize, period ): lastTime is the null time, the
\* buffer is empty and StreamBase() clears overdue.
NewStream(T, bufferSize, period) ==
    [type |-> T, bufferSize |-> bufferSize, period |-> period,
     lastTime |-> 0, overdue |-> FALSE, buffer |-> <<>>]

hasData(s) == s.buffer # <<>>

nextTimeStamp(s) ==
    IF hasData(s) THEN Head(s.buffer)[1] ELSE s.lastTime + s.period

isNull(t) == t = 0

\* Mutants: no space is made, and the newest samples go instead of the oldest.
MakeSpace_None(buffer, bufferSize) == buffer

MakeSpace_DropsNewest(buffer, bufferSize) ==
    IF bufferSize > 0 /\ Len(buffer) >= bufferSize
    THEN SubSeq(buffer, 1, bufferSize - 1)
    ELSE buffer

\* while( bufferSize > 0 && buffer.size() >= bufferSize ) buffer.pop();
RECURSIVE MakeSpace(_, _)
MakeSpace(buffer, bufferSize) ==
    IF bufferSize > 0 /\ Len(buffer) >= bufferSize
    THEN MakeSpace(Tail(buffer), bufferSize)
    ELSE buffer

\* Mutant: a full buffer keeps what it has and the new sample is lost.
StreamPush_DropsWhenFull(s, ts, data) ==
    IF ts < s.lastTime
    THEN s
    ELSE IF s.bufferSize > 0 /\ Len(s.buffer) >= s.bufferSize
    THEN [s EXCEPT !.lastTime = ts]
    ELSE [s EXCEPT !.lastTime = ts, !.buffer = Append(s.buffer, <<ts, data>>)]

\* Mutant: the sample is appended whatever its timestamp.
StreamPush_Unchecked(s, ts, data) ==
    [s EXCEPT !.lastTime = ts,
              !.buffer = Append(MakeSpace(s.buffer, s.bufferSize), <<ts, data>>)]

\* Mutant: a sample as old as the last one is dropped too.
StreamPush_Strict(s, ts, data) ==
    IF ts <= s.lastTime
    THEN s
    ELSE [s EXCEPT !.lastTime = ts,
                   !.buffer = Append(MakeSpace(s.buffer, s.bufferSize), <<ts, data>>)]

\* Stream::push
StreamPush(s, ts, data) ==
    IF ts < s.lastTime
    THEN s
    ELSE [s EXCEPT !.lastTime = ts,
                   !.buffer = Append(MakeSpace(s.buffer, s.bufferSize), <<ts, data>>)]

\* Mutant: the front sample is handed out but stays in the buffer.
StreamPop_Keeps(s, late) ==
    IF hasData(s)
    THEN [s EXCEPT !.overdue = IF late THEN @ ELSE FALSE]
    ELSE s

\* Mutant: overdue is cleared by a late discard as well.
StreamPop_AlwaysClears(s, late) ==
    IF hasData(s)
    THEN [s EXCEPT !.overdue = FALSE, !.buffer = Tail(@)]
    ELSE s

\* Stream::pop: the state change.  The callback invocation of pop(false) is
\* logged by the caller (see Scan).
StreamPop(s, late) ==
    IF hasData(s)
    THEN [s EXCEPT !.overdue = IF late THEN @ ELSE FALSE,
                   !.buffer = Tail(@)]
    ELSE s

(***************************************************************************)
(* SampleReader::step                                                      *)
(***************************************************************************)
\* Mutant: no sample is ever taken to be late.
IsLate_Never(ts, cur) == FALSE

\* late = (ts < current_ts)
IsLate(ts, cur) == ts < cur

\* The do-while of step for one stream: pop(late = true) as long as the front
\* sample is late.
RECURSIVE SweepStream(_, _)
SweepStream(s, cur) ==
    IF IsLate(nextTimeStamp(s), cur) /\ hasData(s)
    THEN SweepStream(StreamPop(s, TRUE), cur)
    ELSE s

Sweep(strs, cur) == [i \in 1..Len(strs) |-> SweepStream(strs[i], cur)]

\* else if( hasData || !ts.isNull() ): the stream is considered
IsCandidate(s) == hasData(s) \/ ~isNull(nextTimeStamp(s))

\* StreamIndex( ts, hasData, *it ); stream is the 1-based position in streams
StreamIndex(s, i) == [time |-> nextTimeStamp(s), hasData |-> hasData(s), stream |-> i]

\* The vector items after the first loop, in registration order; strs is the
\* swept stream vector.
RECURSIVE ItemsFrom(_, _)
ItemsFrom(strs, i) ==
    IF i > Len(strs) THEN <<>>
    ELSE (IF IsCandidate(strs[i]) THEN <<StreamIndex(strs[i], i)>> ELSE <<>>)
         \o ItemsFrom(strs, i + 1)

Items(strs) == ItemsFrom(strs, 1)

\* Mutant: the comparison the other way round.
StreamIndexLess_Reversed(a, b) == a.time > b.time

\* StreamIndex::operator<
StreamIndexLess(a, b) == a.time < b.time

\* std::sort(items.begin(), items.end()): some permutation of items in which
\* no element is less than an element before it.  std::sort leaves the order
\* of equivalent elements unspecified, so every such permutation is a result.
SortOutcomes(items) ==
    LET n == Len(items)
        perms == {p \in [1..n -> 1..n] : \A a, b \in 1..n : a # b => p[a] # p[b]}
        orders == {[k \in 1..n |-> items[p[k]]] : p \in perms}
    IN {o \in orders : \A a, b \in 1..n : a < b => ~StreamIndexLess(o[b], o[a])}

\* Mutants: >= for >, and a stream that is waited for without end.
StillExpected_Inclusive(time) == (time + timeout) >= latest_ts

StillExpected_Always(time) == TRUE

\* (it->time + timeout) > latest_ts: the expected data has not run out yet
StillExpected(time) == (time + timeout) > latest_ts

\* The second loop of step over the sorted items, from position k on.
RECURSIVE Scan(_, _, _)
Scan(order, k, strs) ==
    IF k > Len(order)
    THEN [streams |-> strs, current_ts |-> current_ts, ret |-> FALSE, emit |-> <<>>]
    ELSE LET it == order[k]
             s == strs[it.stream]
         IN IF it.hasData
            THEN [streams |-> [strs EXCEPT ![it.stream] = StreamPop(s, FALSE)],
                  current_ts |-> it.time,
                  ret |-> TRUE,
                  emit |-> <<[stream |-> it.stream - 1,
                              ts |-> Head(s.buffer)[1],
                              data |-> Head(s.buffer)[2]]>>]
            ELSE IF StillExpected(it.time)
            THEN [streams |-> strs, current_ts |-> current_ts, ret |-> FALSE, emit |-> <<>>]
            ELSE Scan(order, k + 1, [strs EXCEPT ![it.stream].overdue = TRUE])

\* All the ways one call of step can end from the current state.
StepOutcomes ==
    IF streams = <<>>
    THEN {[streams |-> streams, current_ts |-> current_ts, ret |-> FALSE, emit |-> <<>>]}
    ELSE LET swept == Sweep(streams, current_ts)
             items == Items(swept)
         IN IF items = <<>> \/ ~(\E k \in 1..Len(items) : items[k].hasData)
            THEN {[streams |-> swept, current_ts |-> current_ts, ret |-> FALSE, emit |-> <<>>]}
            ELSE {Scan(order, 1, swept) : order \in SortOutcomes(items)}

(***************************************************************************)
(* SampleReader::push                                                      *)
(***************************************************************************)
\* Mutants: the timeout left out of the test, and no test at all.
PushTooOld_NoTimeout(ts) == ts < latest_ts

PushTooOld_Never(ts) == FALSE

\* if( (ts + timeout) < latest_ts ) return;
PushTooOld(ts) == (ts + timeout) < latest_ts

\* Mutant: latest_ts is never moved.
PushLatest_Stuck(ts) == latest_ts

\* if( ts > latest_ts ) latest_ts = ts;
PushLatest(ts) == IF ts > latest_ts THEN ts ELSE latest_ts

\* All the ways push<T>( idx, ts, data ) can end from the current state.
\*  - idx < 0 throws std::runtime_error;
\*  - streams[idx] with idx >= streams.size() reads past the vector (undefined
\*    behaviour): the process is killed, or the call comes back having
\*    touched no stream;
\*  - a stream of another type makes dynamic_cast yield a null pointer: the
\*    assert aborts, or (NDEBUG) Stream::push reads lastTime through it.
PushOutcomes(idx, T, ts, data) ==
    IF idx < 0
    THEN {[streams |-> streams, latest_ts |-> latest_ts, ret |-> "runtime_error"]}
    ELSE IF PushTooOld(ts)
    THEN {[streams |-> streams, latest_ts |-> latest_ts, ret |-> "return"]}
    ELSE IF idx >= Len(streams)
    THEN {[streams |-> streams, latest_ts |-> PushLatest(ts), ret |-> r] :
             r \in {"crash", "return"}}
    ELSE IF streams[idx + 1].type # T
    THEN {[streams |-> streams, latest_ts |-> PushLatest(ts), ret |-> r] :
             r \in {"abort", "crash"}}
    ELSE {[streams |-> [streams EXCEPT ![idx + 1] = StreamPush(@, ts, data)],
           latest_ts |-> PushLatest(ts), ret |-> "return"]}

Fatal == {"abort", "crash"}

(***************************************************************************)
(* Free run: any interleaving of the public calls.                         *)
(***************************************************************************)
NoScript ==
    scen = "none" /\ pcS = 0 /\ earlyStep = FALSE /\ drained = FALSE /\ pushed = <<>>

\* SampleReader( timeout )
Init ==
    /\ streams = <<>>
    /\ timeout \in Timeouts
    /\ latest_ts = 0
    /\ current_ts = 0
    /\ alive = TRUE
    /\ ret = "return"
    /\ emitted = <<>>
    /\ nPush = 0
    /\ stalePushed = {}
    /\ lowPushed = {}
    /\ badPush = FALSE
    /\ NoScript

setTimeout(t) ==
    /\ alive
    /\ timeout' = t
    /\ ret' = "return"
    /\ UNCHANGED <<streams, latest_ts, current_ts, alive, emitted, nPush,
                   stalePushed, lowPushed, badPush, harness>>

registerStream(T, bufferSize, period) ==
    /\ alive
    /\ Len(streams) < Cardinality(StreamIds)
    /\ streams' = Append(streams, NewStream(T, bufferSize, period))
    /\ ret' = "return"
    /\ UNCHANGED <<timeout, latest_ts, current_ts, alive, emitted, nPush,
                   stalePushed, lowPushed, badPush, harness>>

\* The program part of a push call, shared by the free run and the scripts.
DoPush(idx, T, ts, data) ==
    /\ alive
    /\ \E o \in PushOutcomes(idx, T, ts, data) :
         /\ streams' = o.streams
         /\ latest_ts' = o.latest_ts
         /\ ret' = o.ret
         /\ alive' = (o.ret \notin Fatal)
    /\ nPush' = nPush + 1
    /\ stalePushed' = IF ts + timeout < latest_ts
                      THEN stalePushed \cup {data} ELSE stalePushed
    /\ lowPushed' = IF /\ 0 <= idx /\ idx < Len(streams)
                       /\ ~(ts + timeout < latest_ts)
                       /\ streams[idx + 1].type = T
                       /\ ts < streams[idx + 1].lastTime
                    THEN lowPushed \cup {data} ELSE lowPushed
    /\ badPush' = IF idx < 0 \/ idx >= Len(streams)
                  THEN TRUE
                  ELSE badPush \/ streams[idx + 1].type # T
    /\ UNCHANGED <<timeout, current_ts, emitted>>

\* Mutant: step reports more work whatever the scan found.
DoStep_ReturnsTrue ==
    /\ alive
    /\ \E o \in StepOutcomes :
         /\ streams' = o.streams
         /\ current_ts' = o.current_ts
         /\ ret' = "true"
         /\ emitted' = emitted \o o.emit
    /\ UNCHANGED <<timeout, latest_ts, alive, nPush, stalePushed, lowPushed,
                   badPush>>

\* The program part of a step call.
DoStep ==
    /\ alive
    /\ \E o \in StepOutcomes :
         /\ streams' = o.streams
         /\ current_ts' = o.current_ts
         /\ ret' = IF o.ret THEN "true" ELSE "false"
         /\ emitted' = emitted \o o.emit
    /\ UNCHANGED <<timeout, latest_ts, alive, nPush, stalePushed, lowPushed,
                   badPush>>

push(idx, T, ts) ==
    /\ nPush < MaxPush
    /\ DoPush(idx, T, ts, Payload(nPush + 1))
    /\ UNCHANGED harness

step ==
    /\ DoStep
    /\ UNCHANGED harness

Next ==
    \/ \E t \in Timeouts : setTimeout(t)
    \/ \E T \in RegisterTypes(Len(streams)), b \in BufferSizes, p \in Periods :
          registerStream(T, b, p)
    \/ \E idx \in PushIds, T \in Types, ts \in Timestamps : push(idx, T, ts)
    \/ step

Spec == Init /\ [][Next]_vars

(***************************************************************************)
(* Scripted runs: the streams are registered, the pushes of a script are   *)
(* made in order, and step is called at any point in between and, after    *)
(* the last push, until it returns false.                                  *)
(***************************************************************************)
\* registerStream's default arguments: bufferSize = 10, period = base::Time()
DefaultBufferSize == 10
DefaultPeriod == 0

A == 0
B == 1

\* One scripted push: push<int>( idx, ts, data ).
P(idx, ts, data) == [idx |-> idx, type |-> "int", ts |-> ts, data |-> data]

TwoPeriodic ==
    <<NewStream("int", DefaultBufferSize, 1), NewStream("int", DefaultBufferSize, 1)>>

\* The payloads written a, b, c, x, y in the scenarios are the numbers 1, 2, 3,
\* 24, 25 here.
Scripts ==
    [S1 |-> [timeout |-> 2, streams |-> TwoPeriodic,
             pushes |-> <<P(A, 1, 10), P(B, 2, 20), P(A, 3, 30), P(B, 4, 40)>>],
     S2 |-> [timeout |-> 2, streams |-> TwoPeriodic,
             pushes |-> <<P(B, 2, 20), P(A, 1, 10)>>],
     S3 |-> [timeout |-> 2, streams |-> TwoPeriodic,
             pushes |-> <<P(A, 1, 10), P(A, 2, 11), P(A, 3, 12), P(A, 4, 13),
                          P(A, 5, 14)>>],
     S4 |-> [timeout |-> 2,
             streams |-> <<NewStream("int", DefaultBufferSize, DefaultPeriod),
                           NewStream("int", DefaultBufferSize, DefaultPeriod)>>,
             pushes |-> <<P(A, 10, 24), P(B, 7, 25)>>],
     S5 |-> [timeout |-> 2,
             streams |-> <<NewStream("int", 2, DefaultPeriod)>>,
             pushes |-> <<P(A, 1, 1), P(A, 2, 2), P(A, 3, 3)>>],
     S6 |-> [timeout |-> 2,
             streams |-> <<NewStream("int", DefaultBufferSize, DefaultPeriod)>>,
             pushes |-> <<P(A, 5, 24), P(A, 3, 25)>>]]

ScriptNames == DOMAIN Scripts

ScriptDone == pcS > Len(Scripts[scen].pushes)

\* The state after SampleReader( timeout ) and the registerStream calls.
InitScript ==
    /\ scen \in ScriptNames
    /\ streams = Scripts[scen].streams
    /\ timeout = Scripts[scen].timeout
    /\ latest_ts = 0
    /\ current_ts = 0
    /\ alive = TRUE
    /\ ret = "return"
    /\ emitted = <<>>
    /\ nPush = 0
    /\ stalePushed = {}
    /\ lowPushed = {}
    /\ badPush = FALSE
    /\ pcS = 1
    /\ earlyStep = FALSE
    /\ drained = FALSE
    /\ pushed = <<>>

pushScript ==
    /\ ~ScriptDone
    /\ LET p == Scripts[scen].pushes[pcS]
       IN DoPush(p.idx, p.type, p.ts, p.data)
    /\ pcS' = pcS + 1
    /\ UNCHANGED <<scen, earlyStep, drained, pushed>>

stepScript ==
    /\ ~drained
    /\ DoStep
    /\ earlyStep' = (earlyStep \/ ~ScriptDone)
    /\ drained' = (ScriptDone /\ ret' = "false")
    /\ UNCHANGED <<scen, pcS, pushed>>

NextScript == pushScript \/ stepScript

SpecScript == InitScript /\ [][NextScript]_vars

(***************************************************************************)
(* Round-trip runs: one stream is registered; samples with non-decreasing  *)
(* timestamps are pushed, no more of them than the buffer can hold, and    *)
(* step and setTimeout are called at any point in between.                 *)
(***************************************************************************)
RoundBufferSizes == 0..MaxPush

InitRound ==
    /\ \E b \in RoundBufferSizes, p \in Periods :
           streams = <<NewStream("int", b, p)>>
    /\ timeout \in Timeouts
    /\ latest_ts = 0
    /\ current_ts = 0
    /\ alive = TRUE
    /\ ret = "return"
    /\ emitted = <<>>
    /\ nPush = 0
    /\ stalePushed = {}
    /\ lowPushed = {}
    /\ badPush = FALSE
    /\ scen = "round"
    /\ pcS = 0
    /\ earlyStep = FALSE
    /\ drained = FALSE
    /\ pushed = <<>>

pushRound(ts) ==
    /\ nPush < MaxPush
    /\ IF streams[1].bufferSize = 0 THEN TRUE ELSE Len(pushed) < streams[1].bufferSize
    /\ IF pushed = <<>> THEN TRUE ELSE pushed[Len(pushed)][1] <= ts
    /\ DoPush(0, "int", ts, Payload(nPush + 1))
    /\ pushed' = Append(pushed, <<ts, Payload(nPush + 1)>>)
    /\ UNCHANGED <<scen, pcS, earlyStep, drained>>

NextRound ==
    \/ \E ts \in Timestamps : pushRound(ts)
    \/ step
    \/ \E t \in Timeouts : setTimeout(t)

SpecRound == InitRound /\ [][NextRound]_vars

(***************************************************************************)
(* Helpers of the properties.                                              *)
(***************************************************************************)
StreamPos == 1..Len(streams)

Last(seq) == seq[Len(seq)]

\* Some stream of strs holds data.
HoldsData(strs) == \E i \in 1..Len(strs) : hasData(strs[i])

\* t is not after the front sample of any stream of strs.
NotAfterFronts(strs, t) ==
    \A i \in 1..Len(strs) : hasData(strs[i]) => t <= nextTimeStamp(strs[i])

\* t is the smallest front timestamp buffered in strs.
IsMinFront(strs, t) ==
    /\ \E i \in 1..Len(strs) : hasData(strs[i]) /\ nextTimeStamp(strs[i]) = t
    /\ NotAfterFronts(strs, t)

\* Stream i of strs is a candidate of step without data.
DataLess(strs, i) == ~hasData(strs[i]) /\ IsCandidate(strs[i])

\* The transition is a call of step.
IsStep == ret' \in {"true", "false"}

(***************************************************************************)
(* C1: the timestamps passed to the callbacks, over all streams and in     *)
(* invocation order, are non-decreasing, whatever push, step, setTimeout   *)
(* and registerStream calls are made.                                      *)
(***************************************************************************)
C1_EmissionsNonDecreasing ==
    \A k \in 1..(Len(emitted) - 1) : emitted[k].ts <= emitted[k + 1].ts

C1_Witness ==
    /\ Len(emitted) >= 2
    /\ emitted[1].stream # emitted[2].stream
    /\ emitted[1].ts < emitted[2].ts

(***************************************************************************)
(* C2 (as stated): in S1, with step called only after the four pushes and  *)
(* until it returns false, the callbacks are A(1,10), B(2,20), A(3,30),    *)
(* B(4,40).                                                                *)
(***************************************************************************)
E(idx, ts, data) == [stream |-> idx, ts |-> ts, data |-> data]

Drained(name) == scen = name /\ ~earlyStep /\ drained

C2_S1DeliversAllFour ==
    Drained("S1") =>
        emitted = <<E(A, 1, 10), E(B, 2, 20), E(A, 3, 30), E(B, 4, 40)>>

(***************************************************************************)
(* C2 (amended): in S1 the callbacks are A(1,10), B(2,20), A(3,30) in that *)
(* order, followed by B(4,40) or by nothing: once A(3,30) is out, A is     *)
(* expected at 3 + 1 = 4, inside the timeout window, and ties with B's     *)
(* sample at 4.                                                            *)
(***************************************************************************)
C2_S1DeliversThreeOrFour ==
    Drained("S1") =>
        emitted \in {<<E(A, 1, 10), E(B, 2, 20), E(A, 3, 30)>>,
                     <<E(A, 1, 10), E(B, 2, 20), E(A, 3, 30), E(B, 4, 40)>>}

C2_Witness ==
    /\ Drained("S1")
    /\ Len(emitted) = 3
    /\ hasData(streams[B + 1])

(***************************************************************************)
(* C3 (as stated): in S2, with step called only after the two pushes and   *)
(* until it returns false, the callbacks are A(1,10) then B(2,20).         *)
(***************************************************************************)
C3_S2DeliversBoth ==
    Drained("S2") => emitted = <<E(A, 1, 10), E(B, 2, 20)>>

(***************************************************************************)
(* C3 (amended): in S2 the first callback is A(1,10); B(2,20) follows it   *)
(* or stays buffered: once A(1,10) is out, A is expected at 1 + 1 = 2,     *)
(* inside the timeout window, and ties with B's sample at 2.               *)
(***************************************************************************)
C3_S2DeliversOneOrBoth ==
    Drained("S2") =>
        emitted \in {<<E(A, 1, 10)>>, <<E(A, 1, 10), E(B, 2, 20)>>}

C3_Witness ==
    /\ Drained("S2")
    /\ emitted = <<E(A, 1, 10)>>
    /\ hasData(streams[B + 1])

(***************************************************************************)
(* C4 (as stated): every push with idx < 0 or idx >= streams.size() ends   *)
(* with the invalid-index error and changes neither latest_ts nor any      *)
(* stream.                                                                 *)
(***************************************************************************)
C4_InvalidIndexRejected ==
    [][\A idx \in PushIds, T \in Types, ts \in Timestamps :
           ((idx < 0 \/ idx >= Len(streams)) /\ push(idx, T, ts)) =>
               (ret' = "runtime_error" /\ UNCHANGED <<latest_ts, streams>>)]_vars

(***************************************************************************)
(* C5 (as stated): every push<T> to a registered stream of another type    *)
(* is stopped by the type check (the assert on the dynamic_cast, the only  *)
(* type check of push), for every ts, and changes neither latest_ts nor    *)
(* any stream.                                                             *)
(***************************************************************************)
C5_TypeMismatchRejected ==
    [][\A idx \in StreamIds, T \in Types, ts \in Timestamps :
           (idx < Len(streams) /\ streams[idx + 1].type # T /\ push(idx, T, ts)) =>
               (ret' = "abort" /\ UNCHANGED <<latest_ts, streams>>)]_vars

(***************************************************************************)
(* C6: whenever step has returned false while some stream holds a sample,  *)
(* some stream without data is expected at a non-null time t that is not   *)
(* after the smallest buffered front timestamp and has t + timeout >       *)
(* latest_ts.                                                              *)
(***************************************************************************)
C6_BlockedOnlyWithinTimeout ==
    (ret = "false" /\ HoldsData(streams)) =>
        \E j \in StreamPos :
            /\ ~hasData(streams[j])
            /\ ~isNull(nextTimeStamp(streams[j]))
            /\ NotAfterFronts(streams, nextTimeStamp(streams[j]))
            /\ nextTimeStamp(streams[j]) + timeout > latest_ts

C6_Witness ==
    /\ ret = "false"
    /\ HoldsData(streams)
    /\ \E j \in StreamPos : streams[j].overdue

(***************************************************************************)
(* C7: a call of step for which, after the late-data sweep, some stream    *)
(* holds data and every data-less candidate expected at t <= the smallest  *)
(* front timestamp has t + timeout <= latest_ts, delivers a sample with    *)
(* the smallest front timestamp, returns true, and leaves overdue every    *)
(* data-less candidate expected strictly before the delivered timestamp.   *)
(***************************************************************************)
C7_TimeoutSkip ==
    [][IsStep =>
         LET swept == Sweep(streams, current_ts)
             skippable ==
                 \A j \in StreamPos :
                     (DataLess(swept, j)
                        /\ NotAfterFronts(swept, nextTimeStamp(swept[j])))
                     => nextTimeStamp(swept[j]) + timeout <= latest_ts
         IN (HoldsData(swept) /\ skippable) =>
                /\ ret' = "true"
                /\ Len(emitted') = Len(emitted) + 1
                /\ IsMinFront(swept, Last(emitted').ts)
                /\ current_ts' = Last(emitted').ts
                /\ \A j \in StreamPos :
                       (DataLess(swept, j)
                          /\ nextTimeStamp(swept[j]) < Last(emitted').ts)
                       => streams'[j].overdue]_vars

C7_Witness ==
    /\ ret = "true"
    /\ emitted # <<>>
    /\ \E j \in StreamPos :
           /\ streams[j].overdue
           /\ DataLess(streams, j)
           /\ nextTimeStamp(streams[j]) < Last(emitted).ts
           /\ nextTimeStamp(streams[j]) + timeout <= latest_ts

(***************************************************************************)
(* C8: current_ts <= latest_ts in every reachable state, i.e. getLatency() *)
(* is never negative.                                                      *)
(***************************************************************************)
getLatency == latest_ts - current_ts

C8_LatencyNonNegative == current_ts <= latest_ts /\ getLatency >= 0

C8_Witness ==
    /\ emitted # <<>>
    /\ current_ts = Last(emitted).ts
    /\ current_ts > 0
    /\ getLatency = 0

(***************************************************************************)
(* C9: a sample whose push had ts + timeout < latest_ts (with the timeout  *)
(* of that moment) is never passed to a callback.                          *)
(***************************************************************************)
C9_StaleNeverDelivered ==
    \A k \in 1..Len(emitted) : emitted[k].data \notin stalePushed

C9_Witness ==
    /\ stalePushed # {}
    /\ emitted # <<>>
    /\ ret = "false"

(***************************************************************************)
(* C10 (as stated): when step delivers a sample, no stream registered      *)
(* before the delivering one held a front sample with the same timestamp.  *)
(***************************************************************************)
C10_EarlierRegisteredFirst ==
    [][(IsStep /\ ret' = "true") =>
         LET swept == Sweep(streams, current_ts)
             e == Last(emitted')
         IN \A i \in StreamPos :
                (hasData(swept[i]) /\ nextTimeStamp(swept[i]) = e.ts)
                => e.stream + 1 <= i]_vars

(***************************************************************************)
(* C11: a call of step invokes at most one callback.  It returns true      *)
(* exactly when it invoked one, and current_ts is then that sample's       *)
(* timestamp; when it returns false it invoked none and current_ts is      *)
(* unchanged.                                                              *)
(***************************************************************************)
C11_StepDeliversAtMostOne ==
    [][IsStep =>
         \/ /\ ret' = "true"
            /\ Len(emitted') = Len(emitted) + 1
            /\ SubSeq(emitted', 1, Len(emitted)) = emitted
            /\ current_ts' = Last(emitted').ts
         \/ /\ ret' = "false"
            /\ emitted' = emitted
            /\ current_ts' = current_ts]_vars

C11_Witness ==
    /\ ret = "true"
    /\ Len(emitted) = 1
    /\ current_ts = emitted[1].ts
    /\ \E i \in StreamPos :
           hasData(streams[i]) /\ nextTimeStamp(streams[i]) = current_ts

(***************************************************************************)
(* C12: with one registered stream, samples pushed with non-decreasing     *)
(* timestamps into a buffer that can hold them all are delivered with the  *)
(* same values and in push order: what has been delivered followed by      *)
(* what is buffered is what has been pushed, at every point of a run with  *)
(* steps in between, and when step returns false all of it is delivered.   *)
(***************************************************************************)
Delivered == [k \in 1..Len(emitted) |-> <<emitted[k].ts, emitted[k].data>>]

C12_SingleStreamRoundTrip ==
    /\ Delivered \o streams[1].buffer = pushed
    /\ ret = "false" => Delivered = pushed

C12_Witness ==
    /\ ret = "false"
    /\ Len(pushed) >= 2
    /\ pushed[1][1] = pushed[2][1]
    /\ Delivered = pushed

(***************************************************************************)
(* C13: a stream with bufferSize > 0 never holds more than bufferSize      *)
(* samples.                                                                *)
(***************************************************************************)
C13_BufferBounded ==
    \A i \in StreamPos :
        streams[i].bufferSize > 0 => Len(streams[i].buffer) <= streams[i].bufferSize

C13_Witness ==
    /\ nPush = MaxPush
    /\ ret = "return"
    /\ emitted = <<>>
    /\ \E i \in StreamPos :
           /\ streams[i].bufferSize > 0
           /\ Len(streams[i].buffer) = streams[i].bufferSize
           /\ Last(streams[i].buffer)[2] = Payload(MaxPush)

(***************************************************************************)
(* C14: an accepted push onto a stream that holds bufferSize (> 0) samples *)
(* removes the front sample, and only that one, and appends the new sample *)
(* at the back.  In S5 (capacity 2, pushes at 1, 2, 3), as long as no step *)
(* has been taken the buffer holds the last min(k, 2) of the k samples     *)
(* pushed, in push order, and a drain after the three pushes delivers      *)
(* exactly (2, b) then (3, c).                                             *)
(***************************************************************************)
\* The next scripted push is accepted by push and by Stream::push.
ScriptPushAccepted ==
    LET p == Scripts[scen].pushes[pcS]
    IN /\ 0 <= p.idx /\ p.idx < Len(streams)
       /\ streams[p.idx + 1].type = p.type
       /\ ~(p.ts + timeout < latest_ts)
       /\ ~(p.ts < streams[p.idx + 1].lastTime)

ScriptPushOntoFull ==
    LET p == Scripts[scen].pushes[pcS]
        s == streams[p.idx + 1]
    IN s.bufferSize > 0 /\ Len(s.buffer) = s.bufferSize

NoStepYet == ~earlyStep /\ ret \notin {"true", "false"}

\* The last n elements of seq (all of them if it has fewer).
LastN(seq, n) ==
    IF Len(seq) <= n THEN seq ELSE SubSeq(seq, Len(seq) - n + 1, Len(seq))

ScriptPushedSoFar ==
    [k \in 1..(pcS - 1) |-> <<Scripts[scen].pushes[k].ts, Scripts[scen].pushes[k].data>>]

C14_DropOldest ==
    /\ [][(~ScriptDone /\ pcS' = pcS + 1 /\ ScriptPushAccepted /\ ScriptPushOntoFull) =>
            LET p == Scripts[scen].pushes[pcS]
            IN streams'[p.idx + 1].buffer =
                   Append(Tail(streams[p.idx + 1].buffer), <<p.ts, p.data>>)]_vars
    /\ []((scen = "S5" /\ NoStepYet) =>
             streams[A + 1].buffer = LastN(ScriptPushedSoFar, 2))
    /\ [](Drained("S5") => emitted = <<E(A, 2, 2), E(A, 3, 3)>>)

C14_Witness ==
    /\ Drained("S5")
    /\ emitted = <<E(A, 2, 2), E(A, 3, 3)>>
    /\ streams[A + 1].buffer = <<>>

(***************************************************************************)
(* C15: a push that is silently dropped, because ts + timeout < latest_ts  *)
(* or because ts < lastTime of its stream, comes back without an error and *)
(* leaves latest_ts, current_ts and every stream (buffer, lastTime,        *)
(* overdue) as they were; no callback is invoked by it, nor later for its  *)
(* sample.                                                                 *)
(***************************************************************************)
\* The transition is a push call that did not throw the index error and
\* whose sample was too old for latest_ts or for lastTime of its stream.
IsDroppedPush ==
    /\ nPush' = nPush + 1
    /\ ret' # "runtime_error"
    /\ stalePushed' # stalePushed \/ lowPushed' # lowPushed

C15_DroppedPushChangesNothing ==
    /\ [][IsDroppedPush =>
             /\ ret' = "return"
             /\ UNCHANGED <<latest_ts, current_ts, streams, emitted>>]_vars
    /\ [](\A k \in 1..Len(emitted) :
              emitted[k].data \notin (stalePushed \cup lowPushed))

C15_Witness ==
    /\ lowPushed # {}
    /\ emitted # <<>>
    /\ ret = "false"

(***************************************************************************)
(* C16: right after a call of step, whatever it returned, no buffered      *)
(* sample is older than current_ts; a delivered sample is one with the     *)
(* smallest timestamp of all the samples buffered, and the samples the     *)
(* sweep removed were not passed to a callback.                            *)
(***************************************************************************)
AfterStep == ret \in {"true", "false"}

C16_NothingOlderThanCurrent ==
    AfterStep =>
        /\ \A i \in StreamPos : \A k \in 1..Len(streams[i].buffer) :
               streams[i].buffer[k][1] >= current_ts
        /\ ret = "true" => Last(emitted).ts = current_ts
        /\ \A k \in 1..Len(emitted) : emitted[k].ts <= current_ts

\* Stream i took a sample at lastTime >= 1 into an unbounded buffer, none of
\* its samples was delivered, and its buffer is empty: the sweep removed it.
C16_Witness ==
    /\ AfterStep
    /\ \E i \in StreamPos :
           /\ streams[i].bufferSize = 0
           /\ streams[i].lastTime >= 1
           /\ streams[i].lastTime < current_ts
           /\ ~hasData(streams[i])
           /\ \A k \in 1..Len(emitted) : emitted[k].stream # i - 1

(***************************************************************************)
(* C17: overdue of a stream becomes set only in a call of step in which    *)
(* the stream, after the sweep, has no data and is expected at a time t    *)
(* with t + timeout <= latest_ts; it becomes clear only in a call of step  *)
(* that delivers a sample of that stream.  Pushes, late discards,          *)
(* deliveries of other streams, setTimeout and registerStream leave it as  *)
(* it is.                                                                  *)
(***************************************************************************)
C17_OverdueSetAndCleared ==
    [][\A i \in StreamPos :
          /\ (~streams[i].overdue /\ streams'[i].overdue) =>
                 /\ IsStep
                 /\ ~hasData(SweepStream(streams[i], current_ts))
                 /\ nextTimeStamp(SweepStream(streams[i], current_ts)) + timeout
                        <= latest_ts
          /\ (streams[i].overdue /\ ~streams'[i].overdue) =>
                 /\ IsStep
                 /\ ret' = "true"
                 /\ Len(emitted') = Len(emitted) + 1
                 /\ Last(emitted').stream = i - 1]_vars

\* An overdue stream that has since been pushed to, after a delivery of
\* another stream.
C17_Witness ==
    /\ ret = "return"
    /\ emitted # <<>>
    /\ \E i \in StreamPos :
           /\ streams[i].overdue
           /\ hasData(streams[i])
           /\ \A k \in 1..Len(emitted) : emitted[k].stream # i - 1

(***************************************************************************)
(* C18: when step has returned false, and every push so far was in range   *)
(* and of the stream's type, getLatency() is at most timeout plus the      *)
(* largest period of the registered streams, and it is 0 if no stream      *)
(* holds data.                                                             *)
(***************************************************************************)
MaxOf(S) ==
    IF S = {} THEN 0 ELSE CHOOSE y \in S : \A z \in S : z <= y

LargestPeriod == MaxOf({streams[i].period : i \in StreamPos})

C18_LatencyBoundedWhenIdle ==
    (ret = "false" /\ ~badPush) =>
        /\ getLatency <= timeout + LargestPeriod
        /\ ~HoldsData(streams) => getLatency = 0

C18_Witness ==
    /\ ret = "false"
    /\ ~badPush
    /\ HoldsData(streams)
    /\ getLatency >= 1
    /\ getLatency = timeout + LargestPeriod - 1

(***************************************************************************)
(* C19: as long as every push was in range and of the stream's type,       *)
(* either current_ts = latest_ts or some buffer holds a sample whose       *)
(* timestamp is latest_ts.                                                 *)
(***************************************************************************)
C19_NewestSampleKept ==
    ~badPush =>
        \/ current_ts = latest_ts
        \/ \E i \in StreamPos : \E k \in 1..Len(streams[i].buffer) :
               streams[i].buffer[k][1] = latest_ts

\* One stream of capacity 1 has taken both pushes: the first sample was
\* evicted and the second, which carries latest_ts, is buffered.
C19_Witness ==
    /\ ~badPush
    /\ Len(streams) = 1
    /\ nPush = 2
    /\ stalePushed = {} /\ lowPushed = {}
    /\ emitted = <<>>
    /\ streams[1].bufferSize = 1
    /\ streams[1].buffer = <<<<latest_ts, Payload(2)>>>>
    /\ current_ts < latest_ts

(***************************************************************************)
(* C20: a call of step that returns true leaves strictly fewer samples     *)
(* buffered than it found, no call of step adds one, and a call that finds *)
(* none returns false: without further pushes, step returns false after at *)
(* most as many true returns as there are samples buffered.                *)
(***************************************************************************)
RECURSIVE SumLen(_, _)
SumLen(strs, i) ==
    IF i > Len(strs) THEN 0 ELSE Len(strs[i].buffer) + SumLen(strs, i + 1)

Buffered(strs) == SumLen(strs, 1)

C20_DrainTerminates ==
    [][IsStep =>
         /\ Buffered(streams') <= Buffered(streams)
         /\ ret' = "true" => Buffered(streams') < Buffered(streams)
         /\ Buffered(streams) = 0 => ret' = "false"]_vars

C20_Witness ==
    /\ ret = "true"
    /\ Len(emitted) = 2
    /\ Buffered(streams) = 0
    /\ nPush = 2

====
